---- MODULE Spec2Model ----
(***************************************************************************)
(* Model of the sensor protocol layer of ESP-MHZ19-DHT22:                  *)
(*   - Dht22::read / wait_for_state / parse_buffer   (src/src/dht22.rs)    *)
(*   - MHz19::read_co2 / enable_auto_calibration /                         *)
(*     calculate_checksum                            (src/src/mh_z19.rs)   *)
(*   - the acquisition loop of main                  (src/src/main.rs)     *)
(*                                                                         *)
(* Bytes are naturals 0..255.  f32 readings are kept in tenths as a        *)
(* sign/magnitude pair (an f32 has a sign bit of its own, so -0.0 and 0.0  *)
(* stay distinct); u16 -> f32 is exact and x / 10.0 is injective on u16.   *)
(***************************************************************************)
EXTENDS Integers, Sequences, FiniteSets, TLC

(***************************************************************************)
(* Fixed-width integer arithmetic.                                         *)
(***************************************************************************)
Byte == 0..255

RECURSIVE Pow2(_)
Pow2(n) == IF n = 0 THEN 1 ELSE 2 * Pow2(n - 1)

\* bit n (0 = least significant) of the natural x
Bit(x, n) == (x \div Pow2(n)) % 2

RECURSIVE BitOrW(_, _, _)
BitOrW(a, b, w) ==
    IF w = 0 THEN 0
    ELSE (IF a % 2 = 1 \/ b % 2 = 1 THEN 1 ELSE 0)
         + 2 * BitOrW(a \div 2, b \div 2, w - 1)

RECURSIVE BitAndW(_, _, _)
BitAndW(a, b, w) ==
    IF w = 0 THEN 0
    ELSE (IF a % 2 = 1 /\ b % 2 = 1 THEN 1 ELSE 0)
         + 2 * BitAndW(a \div 2, b \div 2, w - 1)

\* a | b and a & b on 16-bit operands (u8 operands are the low half)
BitOr(a, b)  == BitOrW(a, b, 16)
BitAnd(a, b) == BitAndW(a, b, 16)

\* x << n on a w-bit unsigned integer: bits shifted out are lost
Shl(x, n, w) == (x * Pow2(n)) % Pow2(w)

\* x << n on an i32 whose operand is a byte widened to i32: the result stays
\* below 2^31, so no bit is lost
ShlI32(x, n) == x * Pow2(n)

\* `x as u8` of a signed 16-bit value: the low 8 bits of its two's complement
AsU8(x) == x % 256

\* checked unsigned addition of width w: the wrapped value and whether it wrapped
AddU(a, b, w) == [val |-> (a + b) % Pow2(w), ovf |-> a + b >= Pow2(w)]

\* checked signed 16-bit arithmetic: the wrapped value and whether it wrapped
WrapI16(x) == ((x + 32768) % 65536) - 32768
ArithI16(x) == [val |-> WrapI16(x), ovf |-> x < -32768 \/ x > 32767]

(***************************************************************************)
(* Program constants of the DHT22 driver.                                  *)
(***************************************************************************)
WakeLowUs        == 3000
RequestUs        == 25
HandshakeTimeout == 85
BitHighTimeout   == 55
BitLowTimeout    == 70
OneThreshold     == 30
NumBits          == 40
BufLen           == 5

\* the errors the pin / uart capability may report (opaque to the driver)
HalErrors == {"EFault", "EBusy"}

ZeroBuf == [i \in 0..(BufLen - 1) |-> 0]

\* a frame literal [b0, b1, b2, b3, b4] as a zero-indexed buffer
Frame(t) == [i \in 0..(Len(t) - 1) |-> t[i + 1]]

(***************************************************************************)
(* Dht22::parse_buffer: humidity and temperature in tenths; the            *)
(* temperature keeps the sign of the f32 next to its magnitude.            *)
(***************************************************************************)
F32Neg(t) == [neg |-> ~t.neg, tenths |-> t.tenths]

\* parse_buffer with the humidity bytes taken little-endian
parse_buffer_little_endian(b) ==
    LET humidity == AddU(Shl(b[1], 8, 16), b[0], 16).val
        temp     == [neg    |-> FALSE,
                     tenths |-> BitOr(Shl(BitAnd(b[2], 127), 8, 16), b[3])]
    IN  [humidity    |-> humidity,
         temperature |-> IF BitAnd(b[2], 128) # 0 THEN F32Neg(temp) ELSE temp]

\* parse_buffer without the 0x7f mask: the sign flag enters the magnitude
parse_buffer_unmasked(b) ==
    LET humidity == AddU(Shl(b[0], 8, 16), b[1], 16).val
        temp     == [neg    |-> FALSE,
                     tenths |-> BitOr(Shl(b[2], 8, 16), b[3])]
    IN  [humidity    |-> humidity,
         temperature |-> IF BitAnd(b[2], 128) # 0 THEN F32Neg(temp) ELSE temp]

\* parse_buffer with the sign applied to a value that has no negative zero
parse_buffer_normalized_zero(b) ==
    LET humidity == AddU(Shl(b[0], 8, 16), b[1], 16).val
        temp     == [neg    |-> FALSE,
                     tenths |-> BitOr(Shl(BitAnd(b[2], 127), 8, 16), b[3])]
    IN  [humidity    |-> humidity,
         temperature |-> IF BitAnd(b[2], 128) # 0 /\ temp.tenths # 0
                         THEN F32Neg(temp) ELSE temp]

parse_buffer(b) ==
    LET humidity == AddU(Shl(b[0], 8, 16), b[1], 16).val
        temp     == [neg    |-> FALSE,
                     tenths |-> BitOr(Shl(BitAnd(b[2], 127), 8, 16), b[3])]
    IN  [humidity    |-> humidity,
         temperature |-> IF BitAnd(b[2], 128) # 0 THEN F32Neg(temp) ELSE temp]

(***************************************************************************)
(* Dht22::read, lines 106-117: the additive checksum over bytes 0..3,      *)
(* accumulated in a u16, and the result it selects.                        *)
(***************************************************************************)
RECURSIVE fold_u16(_, _, _)
fold_u16(b, i, accum) ==
    IF i > 3 THEN accum
    ELSE LET s == AddU(accum.val, b[i], 16)
         IN  fold_u16(b, i + 1, [val |-> s.val, ovf |-> accum.ovf \/ s.ovf])

dht_checksum(b) ==
    LET f == fold_u16(b, 0, [val |-> 0, ovf |-> FALSE])
    IN  [val |-> BitAnd(f.val, 255) % 256, ovf |-> f.ovf]

\* read_result without the checksum test: every full buffer is parsed
read_result_unchecked(b) ==
    LET r == parse_buffer(b)
    IN  [kind |-> "Ok", humidity |-> r.humidity, temperature |-> r.temperature]

\* read_result with the two checksum values of the error swapped
read_result_swapped(b) ==
    LET checksum == dht_checksum(b)
    IN  IF checksum.ovf THEN [kind |-> "Overflow"]
        ELSE IF checksum.val = b[4]
        THEN LET r == parse_buffer(b)
             IN  [kind |-> "Ok", humidity |-> r.humidity,
                  temperature |-> r.temperature]
        ELSE [kind |-> "CheckSum", computed |-> b[4], received |-> checksum.val]

read_result(b) ==
    LET checksum == dht_checksum(b)
    IN  IF checksum.ovf THEN [kind |-> "Overflow"]
        ELSE IF checksum.val = b[4]
        THEN LET r == parse_buffer(b)
             IN  [kind |-> "Ok", humidity |-> r.humidity,
                  temperature |-> r.temperature]
        ELSE [kind |-> "CheckSum", computed |-> checksum.val, received |-> b[4]]

\* store_bit with the threshold test off by one (>= instead of >)
store_bit_inclusive(b, i, e) ==
    IF e >= OneThreshold
    THEN LET byte  == i \div 8
             shift == 7 - (i % 8)
         IN  [b EXCEPT ![byte] = BitOr(b[byte], Shl(1, shift, 8)) % 256]
    ELSE b

\* Dht22::read, lines 99-103: store one decoded bit
store_bit(b, i, e) ==
    IF e > OneThreshold
    THEN LET byte  == i \div 8
             shift == 7 - (i % 8)
         IN  [b EXCEPT ![byte] = BitOr(b[byte], Shl(1, shift, 8)) % 256]
    ELSE b

(***************************************************************************)
(* Dht22::wait_for_state.                                                  *)
(***************************************************************************)
Ok(v)       == [kind |-> "Ok", val |-> v]
Err(e)      == [kind |-> "Err", err |-> e]
PinError(e) == [kind |-> "PinError", err |-> e]

\* wait_iter counting the pass it returns in: Ok(e + 1) instead of Ok(e)
wait_iter_counts_pass(state, timeout_us, timeout_error, e, sample) ==
    IF sample \in HalErrors
    THEN [kind |-> "Return", ret |-> Err(PinError(sample)), delay |-> 0]
    ELSE IF sample = state
    THEN [kind |-> "Return", ret |-> Ok(e + 1), delay |-> 0]
    ELSE IF e = timeout_us
    THEN [kind |-> "Return", ret |-> Err(timeout_error), delay |-> 1]
    ELSE [kind |-> "Continue", delay |-> 1]

\* wait_iter taking a pin that fails for a pin that does not show the level
wait_iter_fault_as_miss(state, timeout_us, timeout_error, e, sample) ==
    IF sample = state
    THEN [kind |-> "Return", ret |-> Ok(e), delay |-> 0]
    ELSE IF e = timeout_us
    THEN [kind |-> "Return", ret |-> Err(timeout_error), delay |-> 1]
    ELSE [kind |-> "Continue", delay |-> 1]

\* wait_iter with one pass more before it gives up (0..=timeout_us + 1)
wait_iter_one_more_pass(state, timeout_us, timeout_error, e, sample) ==
    IF sample \in HalErrors
    THEN [kind |-> "Return", ret |-> Err(PinError(sample)), delay |-> 0]
    ELSE IF sample = state
    THEN [kind |-> "Return", ret |-> Ok(e), delay |-> 0]
    ELSE IF e = timeout_us + 1
    THEN [kind |-> "Return", ret |-> Err(timeout_error), delay |-> 1]
    ELSE [kind |-> "Continue", delay |-> 1]

\* One pass of the loop `for elapsed_time in 0..=timeout_us` (lines 131-137);
\* `sample` is what the pin reports at this poll: a level, or a HAL error.
\* "Return" ends the call with `ret`; `delay` is the delay requested in the pass.
wait_iter(state, timeout_us, timeout_error, e, sample) ==
    IF sample \in HalErrors
    THEN [kind |-> "Return", ret |-> Err(PinError(sample)), delay |-> 0]
    ELSE IF sample = state
    THEN [kind |-> "Return", ret |-> Ok(e), delay |-> 0]
    ELSE IF e = timeout_us
    THEN [kind |-> "Return", ret |-> Err(timeout_error), delay |-> 1]
    ELSE [kind |-> "Continue", delay |-> 1]

(***************************************************************************)
(* The four wait_for_state calls of Dht22::read (lines 88, 89, 95, 97),    *)
(* named by the position of read that makes them.                          *)
(***************************************************************************)
WaitPcs == {"hs_high", "hs_low", "bit_high", "bit_low"}

wait_state(p) == IF p \in {"hs_high", "bit_high"} THEN "High" ELSE "Low"

wait_timeout(p) ==
    CASE p \in {"hs_high", "hs_low"} -> HandshakeTimeout
      [] p = "bit_high"              -> BitHighTimeout
      [] p = "bit_low"               -> BitLowTimeout

\* wait_error with the generic timeout passed to the handshake waits too
wait_error_generic(p) == [kind |-> "ReadTimeout"]

\* wait_error with the wait for High of a bit classified as a missing device
wait_error_by_level(p) ==
    IF p \in {"hs_high", "hs_low", "bit_high"}
    THEN [kind |-> "NotFoundOnGPio"]
    ELSE [kind |-> "ReadTimeout"]

wait_error(p) ==
    IF p \in {"hs_high", "hs_low"}
    THEN [kind |-> "NotFoundOnGPio"]
    ELSE [kind |-> "ReadTimeout"]

(***************************************************************************)
(* The line.  In one read its pulse widths encode one frame; the frames    *)
(* explored are the first NumFrames entries of FrameTable.  Everything     *)
(* else about the line (when it rises, how long a pulse of either kind     *)
(* lasts, whether it stalls, whether the pin faults) is free.              *)
(***************************************************************************)
NumFrames == 6

FrameTable ==
    << <<0, 0, 0, 0, 0>>,
       <<2, 140, 1, 10, 153>>,
       <<1, 144, 128, 10, 27>>,
       <<2, 140, 1, 10, 110>>,
       <<255, 255, 255, 255, 252>>,
       <<0, 0, 128, 0, 127>>,
       <<0, 0, 128, 0, 128>>,
       <<255, 255, 255, 255, 255>> >>

SensorFrames ==
    {Frame(FrameTable[((i - 1) % Len(FrameTable)) + 1]) : i \in 1..NumFrames}

\* bit i of the frame, most significant bit of byte 0 first
SensorBit(f, i) == Bit(f[i \div 8], 7 - (i % 8))

VARIABLES
    pc,            \* position of Dht22::read
    bit,           \* loop variable of `for bit in 0..40`
    buf,           \* the 5-byte buffer of read (all zero while none exists)
    elapsed_time,  \* loop variable of wait_for_state
    slept,         \* microseconds of delay requested by the current wait_for_state
    wait_ret,      \* what the current wait_for_state call returned
    pin,           \* what the pin last did: the level driven or sampled, or its error
    result,        \* what the last Dht22::read returned
    frame,         \* the frame the line encodes during this read
    wake_ops,      \* the pin and delay operations of this read's wake sequence
    sensor,        \* "free", or the timing the attached sensor keeps
    now            \* microseconds since the line was released (timed sensor only)

lineVars == <<sensor, now>>

dhtVars ==
    <<pc, bit, buf, elapsed_time, slept, wait_ret, pin, result, frame, wake_ops,
      lineVars>>

VARIABLES
    mhz_pc,      \* "idle", or "done" when a call of MHz19 has returned
    response,    \* the receive buffer of read_co2 (all zero while none exists)
    rx_len,      \* the number of bytes the transport read delivered
    uart_tx,     \* the frames handed to uart.write during the call
    uart_ops,    \* the transport operations of the call and how each ended
    mhz_call,    \* the method called and its argument
    mhz_result   \* what the call returned

mhzVars == <<mhz_pc, response, rx_len, uart_tx, uart_ops, mhz_call, mhz_result>>

VARIABLES
    main_pc,     \* position of the acquisition loop of main
    co2,         \* the local `co2` of the loop body (0 while none exists)
    log          \* the line the current iteration has logged, if any

mainVars == <<main_pc, co2, log>>

None    == [kind |-> "None"]
Polling == [kind |-> "Polling"]

\* A sensor that keeps the documented timing: `start` microseconds after the
\* line is released it pulls the line low for resp_low, lets it high for
\* resp_high, then sends 40 bits, each bit_low of low followed by zero_high
\* (bit 0) or one_high (bit 1) of high, and ends with one more bit_low of low.
SensorTiming ==
    [resp_low |-> 80, resp_high |-> 80, bit_low |-> 50, one_high |-> 70]

\* the documented widths of the high pulse of a 0 bit
ZeroHighUs == 26..28

\* when the response begins, counted from the release of the line: before,
\* at and after the end of the host's delay of RequestUs
ResponseStartUs == {20, RequestUs, RequestUs + 1, 40}

TimedSensors ==
    {[mode |-> "timed", start |-> t0, zero_high |-> z] :
        t0 \in ResponseStartUs, z \in ZeroHighUs}

\* the level of the line u microseconds into the bits, from bit i on
RECURSIVE BitsLevel(_, _, _, _)
BitsLevel(f, i, u, z) ==
    IF u < SensorTiming.bit_low THEN "Low"
    ELSE IF i = NumBits THEN "High"
    ELSE LET w == IF SensorBit(f, i) = 1 THEN SensorTiming.one_high ELSE z
         IN  IF u < SensorTiming.bit_low + w THEN "High"
             ELSE BitsLevel(f, i + 1, u - SensorTiming.bit_low - w, z)

\* the level of the line t microseconds after its release
SensorLevel(sn, f, t) ==
    IF t < sn.start THEN "High"
    ELSE IF t < sn.start + SensorTiming.resp_low THEN "Low"
    ELSE IF t < sn.start + SensorTiming.resp_low + SensorTiming.resp_high THEN "High"
    ELSE BitsLevel(f, 0, t - sn.start - SensorTiming.resp_low
                              - SensorTiming.resp_high, sn.zero_high)

\* what the pin may report at a poll
Samples ==
    IF sensor.mode = "timed"
    THEN {SensorLevel(sensor, frame, now)}
    ELSE {lv \in {"High", "Low"} :
             (pc = "bit_low" /\ lv = "Low")
                 => ((elapsed_time > OneThreshold) <=> (SensorBit(frame, bit) = 1))}
         \cup HalErrors

RespLen == 9

ZeroResp == [i \in 0..(RespLen - 1) |-> 0]

\* after Dht22::new and MHz19::new: no call made yet
Init ==
    /\ pc = "idle"
    /\ bit = 0
    /\ buf = ZeroBuf
    /\ elapsed_time = 0
    /\ slept = 0
    /\ wait_ret = None
    /\ pin = "High"
    /\ result = None
    /\ frame = ZeroBuf
    /\ wake_ops = << >>
    /\ sensor = [mode |-> "free"]
    /\ now = 0
    /\ mhz_pc = "idle"
    /\ response = ZeroResp
    /\ rx_len = 0
    /\ uart_tx = << >>
    /\ uart_ops = << >>
    /\ mhz_call = None
    /\ mhz_result = None
    /\ main_pc = "top"
    /\ co2 = 0
    /\ log = None

\* Dht22::read, lines 81-85: the operations of the wake sequence, in order
PinOp(name)  == [op |-> name, us |-> 0]
DelayUs(n)   == [op |-> "delay_us", us |-> n]
\* WakeSequence without the 25-microsecond delay after set_high
WakeSequence_no_request_delay ==
    <<PinOp("set_low"), DelayUs(WakeLowUs), PinOp("set_high")>>

WakeSequence ==
    <<PinOp("set_low"), DelayUs(WakeLowUs), PinOp("set_high"), DelayUs(RequestUs)>>

\* entering wait_for_state from position p of read
CallWait(p) ==
    /\ pc' = p
    /\ elapsed_time' = 0
    /\ slept' = 0
    /\ wait_ret' = Polling

\* read_begin answering from the reading of the read before, when that one
\* succeeded, without touching the line
read_begin_cached ==
    /\ UNCHANGED <<mhzVars, mainVars>>
    /\ mhz_pc = "idle"
    /\ pc \in {"idle", "done"}
    /\ \E f \in SensorFrames : frame' = f
    /\ UNCHANGED lineVars
    /\ IF result.kind = "Ok"
       THEN /\ pc' = "done"
            /\ UNCHANGED <<bit, buf, elapsed_time, slept, wait_ret, pin, result,
                           wake_ops>>
       ELSE /\ buf' = ZeroBuf
            /\ bit' = 0
            /\ result' = None
            /\ pin' = "High"
            /\ wake_ops' = WakeSequence
            /\ CallWait("hs_high")

\* Dht22::read, lines 79-88: wake the sensor, ask for data, first wait
read_begin ==
    /\ UNCHANGED <<mhzVars, mainVars>>
    /\ mhz_pc = "idle"
    /\ pc \in {"idle", "done"}
    /\ buf' = ZeroBuf
    /\ bit' = 0
    /\ \E f \in SensorFrames : frame' = f
    /\ sensor' = sensor
    /\ now' = IF sensor.mode = "timed" THEN RequestUs ELSE 0
    /\ \E lo \in {"Ok"} \cup HalErrors, hi \in {"Ok"} \cup HalErrors :
          IF lo # "Ok"
          THEN /\ result' = PinError(lo)
               /\ pc' = "done"
               /\ pin' = lo
               /\ wake_ops' = SubSeq(WakeSequence, 1, 1)
               /\ UNCHANGED <<elapsed_time, slept, wait_ret>>
          ELSE IF hi # "Ok"
          THEN /\ result' = PinError(hi)
               /\ pc' = "done"
               /\ pin' = hi
               /\ wake_ops' = SubSeq(WakeSequence, 1, 3)
               /\ UNCHANGED <<elapsed_time, slept, wait_ret>>
          ELSE /\ result' = None
               /\ pin' = "High"
               /\ wake_ops' = WakeSequence
               /\ CallWait("hs_high")

\* Dht22::wait_for_state, lines 131-137: one poll of the line
wait_for_state_poll ==
    /\ UNCHANGED <<mhzVars, mainVars>>
    /\ pc \in WaitPcs
    /\ wait_ret = Polling
    /\ \E sample \in Samples :
          LET it == wait_iter(wait_state(pc), wait_timeout(pc), wait_error(pc),
                              elapsed_time, sample)
          IN  /\ pin' = sample
              /\ slept' = slept + it.delay
              /\ now' = IF sensor.mode = "timed" THEN now + it.delay ELSE now
              /\ IF it.kind = "Return"
                 THEN wait_ret' = it.ret /\ elapsed_time' = elapsed_time
                 ELSE wait_ret' = Polling /\ elapsed_time' = elapsed_time + 1
    /\ UNCHANGED <<pc, bit, buf, result, frame, wake_ops, sensor>>

\* the `?` after a wait_for_state call: an error ends read
read_wait_failed ==
    /\ UNCHANGED <<mhzVars, mainVars>>
    /\ pc \in WaitPcs
    /\ wait_ret.kind = "Err"
    /\ result' = wait_ret.err
    /\ pc' = "done"
    /\ wait_ret' = None
    /\ elapsed_time' = 0
    /\ slept' = 0
    /\ UNCHANGED <<bit, buf, pin, frame, wake_ops, lineVars>>

\* line 88 returned Ok: line 89
read_handshake_high ==
    /\ UNCHANGED <<mhzVars, mainVars>>
    /\ pc = "hs_high"
    /\ wait_ret.kind = "Ok"
    /\ CallWait("hs_low")
    /\ UNCHANGED <<bit, buf, pin, result, frame, wake_ops, lineVars>>

\* line 89 returned Ok: lines 92-95
read_handshake_low ==
    /\ UNCHANGED <<mhzVars, mainVars>>
    /\ pc = "hs_low"
    /\ wait_ret.kind = "Ok"
    /\ buf' = ZeroBuf
    /\ bit' = 0
    /\ CallWait("bit_high")
    /\ UNCHANGED <<pin, result, frame, wake_ops, lineVars>>

\* line 95 returned Ok: line 97
read_bit_high ==
    /\ UNCHANGED <<mhzVars, mainVars>>
    /\ pc = "bit_high"
    /\ wait_ret.kind = "Ok"
    /\ CallWait("bit_low")
    /\ UNCHANGED <<bit, buf, pin, result, frame, wake_ops, lineVars>>

\* line 97 returned Ok(elapsed): lines 99-104, then the next bit or line 106
read_bit_low ==
    /\ UNCHANGED <<mhzVars, mainVars>>
    /\ pc = "bit_low"
    /\ wait_ret.kind = "Ok"
    /\ buf' = store_bit(buf, bit, wait_ret.val)
    /\ bit' = bit + 1
    /\ IF bit + 1 < NumBits
       THEN CallWait("bit_high")
       ELSE /\ pc' = "checksum"
            /\ wait_ret' = None
            /\ elapsed_time' = 0
            /\ slept' = 0
    /\ UNCHANGED <<pin, result, frame, wake_ops, lineVars>>

\* lines 106-117: checksum, parse, return
read_finish ==
    /\ UNCHANGED <<mhzVars, mainVars>>
    /\ pc = "checksum"
    /\ result' = read_result(buf)
    /\ pc' = "done"
    /\ UNCHANGED <<bit, buf, elapsed_time, slept, wait_ret, pin, frame, wake_ops, lineVars>>

\* read has returned to a caller that goes on to something else: the locals
\* of read are gone, the caller holds the value returned
read_return ==
    /\ UNCHANGED <<mhzVars, mainVars>>
    /\ pc = "done"
    /\ pc' = "idle"
    /\ bit' = 0
    /\ buf' = ZeroBuf
    /\ frame' = ZeroBuf
    /\ wake_ops' = << >>
    /\ UNCHANGED <<elapsed_time, slept, wait_ret, pin, result, lineVars>>

NextDht ==
    \/ read_begin
    \/ wait_for_state_poll
    \/ read_wait_failed
    \/ read_handshake_high
    \/ read_handshake_low
    \/ read_bit_high
    \/ read_bit_low
    \/ read_finish

(***************************************************************************)
(* MHz19 (src/src/mh_z19.rs).                                              *)
(***************************************************************************)
HalError(e) == [kind |-> "HalError", err |-> e]

\* MHz19::calculate_checksum: the sum of bytes 1..7 in an i16, 0xff - sum,
\* plus one, cast to u8; `ovf` tells whether any i16 operation overflowed
RECURSIVE sum_i16(_, _, _)
sum_i16(data, i, acc) ==
    IF i > 7 THEN acc
    ELSE LET s == ArithI16(acc.val + data[i])
         IN  sum_i16(data, i + 1, [val |-> s.val, ovf |-> acc.ovf \/ s.ovf])

\* calculate_checksum without the final + 1 (ones' complement of the sum)
calculate_checksum_ones_complement(data) ==
    LET sum == sum_i16(data, 1, [val |-> 0, ovf |-> FALSE])
        neg == ArithI16(255 - sum.val)
    IN  [val |-> AsU8(neg.val), ovf |-> sum.ovf \/ neg.ovf]

calculate_checksum(data) ==
    LET sum == sum_i16(data, 1, [val |-> 0, ovf |-> FALSE])
        neg == ArithI16(255 - sum.val)
        inc == ArithI16(neg.val + 1)
    IN  [val |-> AsU8(inc.val), ovf |-> sum.ovf \/ neg.ovf \/ inc.ovf]

\* MHz19::read_co2, line 50: the hard-coded read command
read_cmd == Frame(<<255, 1, 134, 0, 0, 0, 0, 0, 121>>)

\* MHz19::read_co2, lines 56-61: what a received buffer is turned into
read_co2_result(resp) ==
    LET checksum == calculate_checksum(resp)
    IN  IF checksum.ovf THEN [kind |-> "Overflow"]
        ELSE IF checksum.val # resp[8]
        THEN [kind |-> "Checksum", computed |-> checksum.val, received |-> resp[8]]
        ELSE [kind |-> "Ok", val |-> ShlI32(resp[2], 8) + resp[3]]

\* calibration_cmd with the checksum taken before the data byte is set
calibration_cmd_early_checksum(enable) ==
    LET cmd0 == Frame(<<255, 1, 121, 0, 0, 0, 0, 0, 0>>)
        cmd1 == [cmd0 EXCEPT ![8] = calculate_checksum(cmd0).val]
    IN  IF enable THEN [cmd1 EXCEPT ![3] = 160] ELSE cmd1

\* MHz19::enable_auto_calibration, lines 65-69: the command frame
calibration_cmd(enable) ==
    LET cmd0 == Frame(<<255, 1, 121, 0, 0, 0, 0, 0, 0>>)
        cmd1 == IF enable THEN [cmd0 EXCEPT ![3] = 160] ELSE cmd0
    IN  [cmd1 EXCEPT ![8] = calculate_checksum(cmd1).val]

(***************************************************************************)
(* The transport.  A read fails, or delivers the first n <= 9 bytes of     *)
(* what the sensor answers; the answers explored take the two data bytes   *)
(* from a band of EdgeWidth around 0, 127/128 and 255 plus the bytes of    *)
(* the documented example, the other bytes from their extremes, with a     *)
(* trailing byte at, next to and away from the right checksum, and every   *)
(* trailing byte for the example itself.                                   *)
(***************************************************************************)
EdgeWidth == 0

EdgeBytes ==
    (0..EdgeWidth) \cup ((127 - EdgeWidth)..(128 + EdgeWidth))
        \cup ((255 - EdgeWidth)..255)

TwosComplement(n) == (256 - (n % 256)) % 256

Responses ==
    {Frame(<<r0, r1, r2, r3, p, p, p, p, r8>>) :
        r0 \in {255}, r1 \in {134}, r2 \in {2}, r3 \in {88}, p \in {0},
        r8 \in Byte}
    \cup
    UNION {
        {Frame(<<r0, r1, r2, r3, p, p, p, p, r8>>) :
            r8 \in {TwosComplement(r1 + r2 + r3 + 4 * p),
                    TwosComplement(r1 + r2 + r3 + 4 * p + 255), 0, 255}} :
        r0 \in {0, 255}, r1 \in {0, 134, 255}, r2 \in EdgeBytes \cup {2},
        r3 \in EdgeBytes \cup {88}, p \in {0, 255} }

\* the receive buffer after the transport delivered the first n bytes of r
Deliver(r, n) == [i \in 0..(RespLen - 1) |-> IF i < n THEN r[i] ELSE 0]

\* one transport operation and how it ended: "Ok" or the error reported
UartOp(name, outcome) == [op |-> name, out |-> outcome]

\* MHz19::read_co2, lines 49-62
read_co2 ==
    /\ UNCHANGED <<dhtVars, mainVars>>
    /\ pc = "idle"
    /\ mhz_pc = "idle"
    /\ mhz_pc' = "done"
    /\ mhz_call' = [fn |-> "read_co2"]
    /\ uart_tx' = <<read_cmd>>
    /\ \E w \in {"Ok"} \cup HalErrors :
          IF w # "Ok"
          THEN /\ mhz_result' = HalError(w)
               /\ uart_ops' = <<UartOp("write", w)>>
               /\ UNCHANGED <<response, rx_len>>
          ELSE \E rd \in {"Ok"} \cup HalErrors :
                  /\ uart_ops' = <<UartOp("write", w), UartOp("read", rd)>>
                  /\ IF rd # "Ok"
                     THEN /\ mhz_result' = HalError(rd)
                          /\ UNCHANGED <<response, rx_len>>
                     ELSE \E r \in Responses, n \in 0..RespLen :
                             /\ rx_len' = n
                             /\ response' = Deliver(r, n)
                             /\ mhz_result' = read_co2_result(Deliver(r, n))

\* enable_auto_calibration waiting for a reply to the command it wrote
enable_auto_calibration_awaits_reply ==
    /\ UNCHANGED <<dhtVars, mainVars>>
    /\ pc = "idle"
    /\ mhz_pc = "idle"
    /\ mhz_pc' = "done"
    /\ \E enable \in BOOLEAN, w \in {"Ok"} \cup HalErrors :
          /\ mhz_call' = [fn |-> "enable_auto_calibration", enable |-> enable]
          /\ uart_tx' = <<calibration_cmd(enable)>>
          /\ IF w # "Ok"
             THEN /\ uart_ops' = <<UartOp("write", w)>>
                  /\ mhz_result' = HalError(w)
                  /\ UNCHANGED <<response, rx_len>>
             ELSE \E rd \in {"Ok"} \cup HalErrors :
                     /\ uart_ops' = <<UartOp("write", w), UartOp("read", rd)>>
                     /\ mhz_result' = IF rd # "Ok" THEN HalError(rd)
                                      ELSE [kind |-> "Ok"]
                     /\ \E r \in Responses :
                           /\ response' = IF rd = "Ok" THEN r ELSE response
                           /\ rx_len' = IF rd = "Ok" THEN RespLen ELSE rx_len

\* MHz19::enable_auto_calibration, lines 64-73
enable_auto_calibration ==
    /\ UNCHANGED <<dhtVars, mainVars>>
    /\ pc = "idle"
    /\ mhz_pc = "idle"
    /\ mhz_pc' = "done"
    /\ \E enable \in BOOLEAN, w \in {"Ok"} \cup HalErrors :
          /\ mhz_call' = [fn |-> "enable_auto_calibration", enable |-> enable]
          /\ uart_tx' = <<calibration_cmd(enable)>>
          /\ uart_ops' = <<UartOp("write", w)>>
          /\ mhz_result' = IF w # "Ok" THEN HalError(w) ELSE [kind |-> "Ok"]
    /\ UNCHANGED <<response, rx_len>>

\* the call has returned: its locals are gone, the next call starts afresh
mhz_return ==
    /\ UNCHANGED <<dhtVars, mainVars>>
    /\ mhz_pc = "done"
    /\ mhz_pc' = "idle"
    /\ response' = ZeroResp
    /\ rx_len' = 0
    /\ uart_tx' = << >>
    /\ uart_ops' = << >>
    /\ mhz_call' = None
    /\ mhz_result' = None

NextMHz19 ==
    \/ read_co2
    \/ enable_auto_calibration
    \/ mhz_return

(***************************************************************************)
(* Specifications.                                                         *)
(***************************************************************************)
vars == <<dhtVars, mhzVars, mainVars>>

\* the line protocol, poll by poll
SpecDht22 == Init /\ [][NextDht]_vars

\* the CO2 codec, call by call
SpecMHz19 == Init /\ [][NextMHz19]_vars

\* one caller using both drivers, one call at a time, in any order
NextCalls ==
    \/ NextDht
    \/ read_return
    \/ NextMHz19

SpecCalls == Init /\ [][NextCalls]_vars

(***************************************************************************)
(* The acquisition loop of main (src/src/main.rs, lines 186-205).  It      *)
(* talks to the CO2 sensor through the uart directly and to the DHT22      *)
(* through Dht22::read.                                                    *)
(***************************************************************************)
\* what uart.read may deliver in the loop: the documented answer, the same
\* with a wrong last byte, and the first three bytes of it only
MainReads ==
    { [bytes |-> Frame(<<255, 134, 2, 88, 0, 0, 0, 0, 32>>), n |-> RespLen],
      [bytes |-> Frame(<<255, 134, 2, 88, 0, 0, 0, 0, 33>>), n |-> RespLen],
      [bytes |-> Frame(<<255, 134, 2, 88, 0, 0, 0, 0, 32>>), n |-> 3] }

\* lines 187-192: toggle the LED, write the read command, read the answer
\* into a fresh buffer and take bytes 2 and 3 of it as the concentration;
\* `?` on the LED returns from main, unwrap on the uart panics
main_exchange ==
    /\ main_pc = "top"
    /\ pc = "idle"
    /\ log' = None
    /\ UNCHANGED <<dhtVars, mhz_pc, mhz_call, mhz_result>>
    /\ \E led \in {"Ok"} \cup HalErrors :
          IF led # "Ok"
          THEN /\ main_pc' = "returned"
               /\ uart_tx' = << >>
               /\ uart_ops' = << >>
               /\ response' = ZeroResp
               /\ rx_len' = 0
               /\ co2' = 0
          ELSE /\ uart_tx' = <<Frame(<<255, 1, 134, 0, 0, 0, 0, 0, 121>>)>>
               /\ \E w \in {"Ok"} \cup HalErrors :
                     IF w # "Ok"
                     THEN /\ main_pc' = "panicked"
                          /\ uart_ops' = <<UartOp("write", w)>>
                          /\ response' = ZeroResp
                          /\ rx_len' = 0
                          /\ co2' = 0
                     ELSE \E rd \in {"Ok"} \cup HalErrors :
                             /\ uart_ops' = <<UartOp("write", w), UartOp("read", rd)>>
                             /\ IF rd # "Ok"
                                THEN /\ main_pc' = "panicked"
                                     /\ response' = ZeroResp
                                     /\ rx_len' = 0
                                     /\ co2' = 0
                                ELSE \E m \in MainReads :
                                        LET resp == Deliver(m.bytes, m.n)
                                        IN  /\ main_pc' = "reading"
                                            /\ response' = resp
                                            /\ rx_len' = m.n
                                            /\ co2' = ShlI32(resp[2], 8) + resp[3]

\* line 193: dht22.read() runs to its return
main_read ==
    /\ main_pc = "reading"
    /\ pc # "done"
    /\ NextDht

\* lines 194-204: log the reading with the concentration, or the error
\* alone; then sleep and start over
main_log ==
    /\ main_pc = "reading"
    /\ pc = "done"
    /\ log' = IF result.kind = "Ok"
              THEN [level |-> "info", temperature |-> result.temperature,
                    humidity |-> result.humidity, co2 |-> co2]
              ELSE [level |-> "warn", err |-> result]
    /\ main_pc' = "top"
    /\ pc' = "idle"
    /\ bit' = 0
    /\ buf' = ZeroBuf
    /\ frame' = ZeroBuf
    /\ wake_ops' = << >>
    /\ UNCHANGED <<elapsed_time, slept, wait_ret, pin, result, lineVars>>
    /\ UNCHANGED <<mhzVars, co2>>

NextMain ==
    \/ main_exchange
    \/ main_read
    \/ main_log

SpecMain == Init /\ [][NextMain]_vars

\* the line protocol against a sensor that keeps the documented timing, the
\* line sampled once a microsecond
InitTimed ==
    /\ pc = "idle"
    /\ bit = 0
    /\ buf = ZeroBuf
    /\ elapsed_time = 0
    /\ slept = 0
    /\ wait_ret = None
    /\ pin = "High"
    /\ result = None
    /\ frame = ZeroBuf
    /\ wake_ops = << >>
    /\ sensor \in TimedSensors
    /\ now = 0
    /\ mhz_pc = "idle"
    /\ response = ZeroResp
    /\ rx_len = 0
    /\ uart_tx = << >>
    /\ uart_ops = << >>
    /\ mhz_call = None
    /\ mhz_result = None
    /\ main_pc = "top"
    /\ co2 = 0
    /\ log = None

SpecTimed == InitTimed /\ [][NextDht]_vars

\* Dht22::read at line 106 with a fully received buffer: the frames explored
\* are the documented example with every trailing byte, and frames whose
\* high bytes come from EdgeBytes (plus the example's) and whose low bytes
\* are 0, the example's or 255, with a trailing byte at, next to and away
\* from the right checksum
DecodeFrames ==
    {Frame(<<2, 140, 1, 10, b4>>) : b4 \in Byte}
    \cup
    UNION {
        {Frame(<<b0, b1, b2, b3, b4>>) :
            b4 \in {(b0 + b1 + b2 + b3) % 256, (b0 + b1 + b2 + b3 + 1) % 256,
                    0, 255}} :
        b0 \in EdgeBytes \cup {2}, b1 \in {0, 140, 255},
        b2 \in EdgeBytes \cup {1}, b3 \in {0, 10, 255} }

InitDecode ==
    /\ pc = "checksum"
    /\ bit = NumBits
    /\ buf \in DecodeFrames
    /\ frame = buf
    /\ wake_ops = WakeSequence
    /\ sensor = [mode |-> "free"]
    /\ now = 0
    /\ elapsed_time = 0
    /\ slept = 0
    /\ wait_ret = None
    /\ pin = "Low"
    /\ result = None
    /\ mhz_pc = "idle"
    /\ response = ZeroResp
    /\ rx_len = 0
    /\ uart_tx = << >>
    /\ uart_ops = << >>
    /\ mhz_call = None
    /\ mhz_result = None
    /\ main_pc = "top"
    /\ co2 = 0
    /\ log = None

NextDecode ==
    \/ read_finish

SpecDecode == InitDecode /\ [][NextDecode]_vars

(***************************************************************************)
(* Properties.                                                             *)
(***************************************************************************)
Levels == {"High", "Low"}

\* bit j of a buffer, counted from the most significant bit of byte 0
BitAt(b, j) == (b[j \div 8] \div Pow2(7 - (j % 8))) % 2

\* the additive checksum of a 5-byte frame: bytes 0..3 summed, low 8 bits
SumOfFour(b) == (b[0] + b[1] + b[2] + b[3]) % 256

\* C1: Dht22::read returns Ok only when the 40 bits decoded in that call
\* form a frame whose byte 4 equals (byte0+byte1+byte2+byte3) mod 256.
C1_OkOnlyAfterChecksum ==
    result.kind = "Ok" =>
        /\ pc = "done"
        /\ bit = NumBits
        /\ SumOfFour(buf) = buf[4]

C1_Witness ==
    /\ pc = "done"
    /\ result.kind = "Ok"
    /\ result.humidity = 652
    /\ buf[4] = 153

\* C2: a handshake wait (line 88 or 89) whose last poll, after 85 sleeps,
\* still misses the expected level returns NotFoundOnGPio, read returns that
\* error at once, and no bit has been sampled in that read.
C2_HandshakeTimeoutStep ==
    (/\ pc \in {"hs_high", "hs_low"}
     /\ wait_ret = Polling
     /\ elapsed_time = 85
     /\ pin' \in Levels \ {wait_state(pc)})
        => wait_ret' = Err([kind |-> "NotFoundOnGPio"])

C2_HandshakeErrorEndsRead ==
    (pc \in {"hs_high", "hs_low"} /\ wait_ret.kind = "Err")
        => /\ pc' = "done"
           /\ result' = wait_ret.err
           /\ bit' = 0
           /\ buf' = ZeroBuf

C2_NotFoundState ==
    result.kind = "NotFoundOnGPio" => (pc = "done" /\ bit = 0 /\ buf = ZeroBuf)

C2_HandshakeTimeoutIsNotFound ==
    /\ [][C2_HandshakeTimeoutStep]_vars
    /\ [][C2_HandshakeErrorEndsRead]_vars
    /\ []C2_NotFoundState

C2_Witness ==
    /\ pc = "done"
    /\ result.kind = "NotFoundOnGPio"
    /\ pin = "High"

\* C3: after the handshake, a wait for High whose poll after 55 sleeps, or a
\* wait for Low whose poll after 70 sleeps, still misses the level returns
\* ReadTimeout whatever the bit index; read returns it at once, leaves the
\* bit counter and the buffer as they were and produces no reading.
C3_BitTimeoutStep ==
    (/\ \/ pc = "bit_high" /\ elapsed_time = 55
        \/ pc = "bit_low" /\ elapsed_time = 70
     /\ wait_ret = Polling
     /\ pin' \in Levels \ {wait_state(pc)})
        => wait_ret' = Err([kind |-> "ReadTimeout"])

C3_BitErrorEndsRead ==
    (pc \in {"bit_high", "bit_low"} /\ wait_ret.kind = "Err")
        => /\ pc' = "done"
           /\ result' = wait_ret.err
           /\ bit' = bit
           /\ buf' = buf

C3_ReadTimeoutState ==
    result.kind = "ReadTimeout" => (pc = "done" /\ bit \in 0..(NumBits - 1))

C3_BitTimeoutIsReadTimeout ==
    /\ [][C3_BitTimeoutStep]_vars
    /\ [][C3_BitErrorEndsRead]_vars
    /\ []C3_ReadTimeoutState

C3_Witness ==
    /\ pc = "done"
    /\ result.kind = "ReadTimeout"
    /\ bit = NumBits - 1
    /\ buf # ZeroBuf

\* C4: each wait for Low that returns Ok(elapsed) sets frame bit i (byte
\* i/8, position 7 - i%8) to 1 exactly when elapsed > 30 and changes no
\* other bit; bits not yet reached are 0; a read that gets to the checksum
\* has extracted exactly 40 bits.
C4_BitStep ==
    (pc = "bit_low" /\ wait_ret.kind = "Ok")
        => \A j \in 0..39 :
              BitAt(buf', j) =
                  IF j = bit THEN (IF wait_ret.val > 30 THEN 1 ELSE 0)
                  ELSE BitAt(buf, j)

C4_BufferState ==
    /\ \A j \in 0..39 : j >= bit => BitAt(buf, j) = 0
    /\ \A k \in 0..4 : buf[k] \in Byte
    /\ (pc = "checksum" \/ result.kind \in {"Ok", "CheckSum"}) => bit = 40
    /\ pc \in {"bit_high", "bit_low"} => bit \in 0..39

C4_BitsFollowPulseWidth ==
    /\ [][C4_BitStep]_vars
    /\ []C4_BufferState

C4_Witness ==
    /\ pc = "bit_low"
    /\ bit = 39
    /\ wait_ret = Ok(30)
    /\ buf[0] = 2

\* the value of a sign/magnitude reading, in tenths
SignedTenths(t) == IF t.neg THEN 0 - t.tenths ELSE t.tenths

\* C5: a fully received frame whose byte 4 differs from the low 8 bits of
\* byte0+byte1+byte2+byte3 makes read return CheckSum(computed, received),
\* in that order, and the u16 accumulation never overflows.
C5_ChecksumErrorCarriesBoth ==
    pc = "done" =>
        /\ result.kind # "Overflow"
        /\ buf[4] # SumOfFour(buf) =>
              result = [kind |-> "CheckSum", computed |-> SumOfFour(buf),
                        received |-> buf[4]]
        /\ result.kind = "CheckSum" => buf[4] # SumOfFour(buf)

C5_Witness ==
    /\ pc = "done"
    /\ buf = Frame(<<255, 255, 255, 255, 255>>)
    /\ result = [kind |-> "CheckSum", computed |-> 252, received |-> 255]

\* C6 as stated: the frame [0x02,0x8C,0x01,0x0A,0x6E] decodes to humidity
\* 65.2 and temperature 26.2, and any other last byte is rejected.
C6_AsStated ==
    (/\ pc = "done"
     /\ buf[0] = 2 /\ buf[1] = 140 /\ buf[2] = 1 /\ buf[3] = 10)
        => IF buf[4] = 110
           THEN result = [kind |-> "Ok", humidity |-> 652,
                          temperature |-> [neg |-> FALSE, tenths |-> 262]]
           ELSE result.kind = "CheckSum"

\* C6 amended: the frame [0x02,0x8C,0x01,0x0A,0x99] decodes to humidity
\* 65.2 and temperature 26.6 (652 and 266 tenths); with any other last byte
\* X, 0x6E included, the frame is rejected with CheckSum(0x99, X).
C6_ExampleFrame ==
    (/\ pc = "done"
     /\ buf[0] = 2 /\ buf[1] = 140 /\ buf[2] = 1 /\ buf[3] = 10)
        => IF buf[4] = 153
           THEN result = [kind |-> "Ok", humidity |-> 652,
                          temperature |-> [neg |-> FALSE, tenths |-> 266]]
           ELSE result = [kind |-> "CheckSum", computed |-> 153,
                          received |-> buf[4]]

C6_Witness ==
    /\ pc = "done"
    /\ buf = Frame(<<2, 140, 1, 10, 153>>)
    /\ result.kind = "Ok"

\* C7: for every frame that passes the checksum, humidity in tenths is
\* 256*byte0 + byte1, the temperature magnitude in tenths is
\* 256*(byte2 AND 0x7F) + byte3, and the temperature is negative exactly
\* when bit 7 of byte 2 is set; bytes 0x80, 0x0A give -10 tenths.
C7_FieldsOfValidFrame ==
    (pc = "done" /\ buf[4] = SumOfFour(buf)) =>
        /\ result.kind = "Ok"
        /\ result.humidity = 256 * buf[0] + buf[1]
        /\ result.temperature.tenths = 256 * (buf[2] % 128) + buf[3]
        /\ result.temperature.neg = (buf[2] >= 128)
        /\ (buf[2] = 128 /\ buf[3] = 10) =>
              SignedTenths(result.temperature) = 0 - 10

C7_Witness ==
    /\ pc = "done"
    /\ result.kind = "Ok"
    /\ buf[2] = 128
    /\ buf[3] = 10
    /\ SignedTenths(result.temperature) = 0 - 10

\* the sum of bytes 1..7 of a 9-byte frame
SumOfSeven(f) == f[1] + f[2] + f[3] + f[4] + f[5] + f[6] + f[7]

\* C8: when the transport delivers all 9 bytes of a response r, read_co2
\* returns Ok(256*r[2] + r[3]) if r[8] equals c, the low 8 bits of
\* 0xFF - (r[1]+...+r[7]) + 1 (that is, r[1]+...+r[8] is 0 modulo 256), and
\* Checksum(c, r[8]) otherwise; no i16 operation overflows; the response
\* [0xFF,0x86,0x02,0x58,0,0,0,0,X] gives 600 for the right X only.
C8_ReadCo2Result ==
    (mhz_pc = "done" /\ rx_len = 9) =>
        LET c == (256 - (SumOfSeven(response) % 256)) % 256
        IN  /\ mhz_result.kind \in {"Ok", "Checksum"}
            /\ (c = response[8]) <=> ((SumOfSeven(response) + response[8]) % 256 = 0)
            /\ IF response[8] = c
               THEN mhz_result =
                        [kind |-> "Ok", val |-> 256 * response[2] + response[3]]
               ELSE mhz_result =
                        [kind |-> "Checksum", computed |-> c,
                         received |-> response[8]]
            /\ (/\ response[0] = 255 /\ response[1] = 134
                /\ response[2] = 2 /\ response[3] = 88
                /\ \A i \in 4..7 : response[i] = 0)
                  => IF response[8] = 32
                     THEN mhz_result = [kind |-> "Ok", val |-> 600]
                     ELSE mhz_result = [kind |-> "Checksum", computed |-> 32,
                                        received |-> response[8]]

C8_Witness ==
    /\ mhz_pc = "done"
    /\ rx_len = 9
    /\ response = Frame(<<255, 134, 2, 88, 0, 0, 0, 0, 32>>)
    /\ mhz_result = [kind |-> "Ok", val |-> 600]

\* C9: every frame handed to the transport is 9 bytes [0xFF, 0x01, command,
\* ...] whose byte 8 is the checksum of its own bytes 1..7: the read command
\* is [0xFF,0x01,0x86,0,0,0,0,0,0x79] and the calibration command carries
\* 0xA0 or 0x00 in byte 3 and zeros in bytes 4..7.
C9_WrittenFramesAreWellFormed ==
    \A k \in 1..Len(uart_tx) :
        LET f == uart_tx[k]
        IN  /\ DOMAIN f = 0..8
            /\ f[0] = 255
            /\ f[1] = 1
            /\ f[2] \in {134, 121}
            /\ f[8] = (256 - (SumOfSeven(f) % 256)) % 256
            /\ f[2] = 134 => f = Frame(<<255, 1, 134, 0, 0, 0, 0, 0, 121>>)
            /\ f[2] = 121 =>
                  /\ f[3] \in {160, 0}
                  /\ \A i \in 4..7 : f[i] = 0

C9_Witness ==
    /\ mhz_pc = "done"
    /\ Len(uart_tx) = 1
    /\ uart_tx[1][2] = 121
    /\ uart_tx[1][3] = 160
    /\ uart_tx[1][8] = 230

\* C10: a wait_for_state that succeeds returns the number of 1-microsecond
\* sleeps made before the poll that saw the expected level, at most the
\* timeout; every poll that sees the expected level ends the wait at once,
\* and every other poll sleeps one microsecond.
C10_ReturnedState ==
    (pc \in WaitPcs /\ wait_ret.kind = "Ok") =>
        /\ wait_ret.val = slept
        /\ wait_ret.val \in 0..wait_timeout(pc)
        /\ pin = wait_state(pc)

C10_PollingState ==
    (pc \in WaitPcs /\ wait_ret = Polling) =>
        /\ slept = elapsed_time
        /\ elapsed_time \in 0..wait_timeout(pc)

C10_PollStep ==
    (pc \in WaitPcs /\ wait_ret = Polling) =>
        IF pin' = wait_state(pc)
        THEN wait_ret' = Ok(slept) /\ slept' = slept
        ELSE pin' \in Levels => (slept' = slept + 1 /\ wait_ret'.kind # "Ok")

C10_WaitReturnsSleepCount ==
    /\ []C10_ReturnedState
    /\ []C10_PollingState
    /\ [][C10_PollStep]_vars

C10_Witness ==
    /\ pc = "bit_low"
    /\ wait_ret = Ok(70)
    /\ slept = 70
    /\ pin = "Low"

\* C11: in every call of wait_for_state, one that ends in the timeout error
\* included, the delay requested is at most the timeout of that call (85, 55
\* or 70 microseconds).
C11_AsStated ==
    pc \in WaitPcs => slept <= wait_timeout(pc)

\* C12: read_co2 returns Ok only after the transport read delivered all 9
\* bytes of the response; a read that delivers fewer (zero included) without
\* an error does not end in Ok.
C12_AsStated ==
    (/\ mhz_pc = "done"
     /\ mhz_call.fn = "read_co2"
     /\ uart_ops = <<[op |-> "write", out |-> "Ok"], [op |-> "read", out |-> "Ok"]>>
     /\ rx_len < RespLen)
        => mhz_result.kind # "Ok"

\* the operations a read starts with, written out
ExpectedWake ==
    << [op |-> "set_low",  us |-> 0], [op |-> "delay_us", us |-> 3000],
       [op |-> "set_high", us |-> 0], [op |-> "delay_us", us |-> 25] >>

IsPrefix(s, t) == Len(s) <= Len(t) /\ s = SubSeq(t, 1, Len(s))

\* C13: every read, one that follows a failed read included, begins with
\* set_low, delay 3000 us, set_high, delay 25 us, in that order; the line is
\* sampled only after the four are done, and it is driven low exactly once
\* in a read.
C13_WakeState ==
    /\ pc \in WaitPcs \cup {"checksum"} => wake_ops = ExpectedWake
    /\ pc # "idle" =>
          /\ IsPrefix(wake_ops, ExpectedWake)
          /\ Cardinality({k \in DOMAIN wake_ops : wake_ops[k].op = "set_low"}) = 1
    /\ result.kind \in {"NotFoundOnGPio", "ReadTimeout", "CheckSum", "Ok"}
          => wake_ops = ExpectedWake

\* a step that samples the line
C13_SampleStep ==
    (pc \in WaitPcs /\ wait_ret = Polling)
        => (wake_ops = ExpectedWake /\ wake_ops' = wake_ops)

\* the first step of a read, whatever the read before it returned
C13_ReadStart ==
    pc \in {"idle", "done"}
        => /\ wake_ops' \in {SubSeq(ExpectedWake, 1, 1), SubSeq(ExpectedWake, 1, 3),
                              ExpectedWake}
           /\ pc' # "done" => (pc' = "hs_high" /\ wake_ops' = ExpectedWake)
           /\ wake_ops' # ExpectedWake => (pc' = "done" /\ result'.kind = "PinError")

C13_WakeBeforeSampling ==
    /\ []C13_WakeState
    /\ [][C13_SampleStep]_vars
    /\ [][C13_ReadStart]_vars

C13_Witness ==
    /\ pc = "bit_low"
    /\ bit = NumBits - 1
    /\ pin = "High"
    /\ elapsed_time > 0
    /\ wake_ops = ExpectedWake

\* C15: enable_auto_calibration(enable) hands exactly one frame to the
\* transport, [0xFF,0x01,0x79,d,0,0,0,0,checksum] with d = 0xA0 for true and
\* 0x00 for false, performs no transport read, and returns Ok exactly when
\* that write reported no error (the error is returned otherwise).
C15_CalibrationEffect ==
    (mhz_pc = "done" /\ mhz_call.fn = "enable_auto_calibration") =>
        LET d == IF mhz_call.enable THEN 160 ELSE 0
            c == (256 - ((1 + 121 + d) % 256)) % 256
        IN  /\ uart_tx = << Frame(<<255, 1, 121, d, 0, 0, 0, 0, c>>) >>
            /\ Len(uart_ops) = 1
            /\ uart_ops[1].op = "write"
            /\ \A k \in DOMAIN uart_ops : uart_ops[k].op # "read"
            /\ response = ZeroResp
            /\ rx_len = 0
            /\ (mhz_result = [kind |-> "Ok"]) <=> (uart_ops[1].out = "Ok")
            /\ uart_ops[1].out # "Ok"
                  => mhz_result = [kind |-> "HalError", err |-> uart_ops[1].out]

C15_Witness ==
    /\ mhz_pc = "done"
    /\ mhz_call = [fn |-> "enable_auto_calibration", enable |-> TRUE]
    /\ uart_tx = << Frame(<<255, 1, 121, 160, 0, 0, 0, 0, 230>>) >>
    /\ uart_ops = << [op |-> "write", out |-> "Ok"] >>
    /\ mhz_result = [kind |-> "Ok"]

\* C14: what a call returns is determined by what the line or the transport
\* did during that call, whatever calls came before: a read starts its first
\* wait in one fixed state; the bits in the buffer are the bits the line
\* encoded in this read; the result is the decoding of this read's frame, or
\* the error of this read's failing wait; a call of MHz19 returns the error
\* of its own failing transport operation or the decoding of the buffer its
\* own read filled.
C14_Decode(f) ==
    IF SumOfFour(f) = f[4]
    THEN [kind |-> "Ok", humidity |-> 256 * f[0] + f[1],
          temperature |-> [neg |-> f[2] >= 128,
                           tenths |-> 256 * (f[2] % 128) + f[3]]]
    ELSE [kind |-> "CheckSum", computed |-> SumOfFour(f), received |-> f[4]]

C14_Answer(call, ops, resp) ==
    IF ops[Len(ops)].out # "Ok"
    THEN [kind |-> "HalError", err |-> ops[Len(ops)].out]
    ELSE IF call.fn = "enable_auto_calibration"
    THEN [kind |-> "Ok"]
    ELSE IF (SumOfSeven(resp) + resp[8]) % 256 = 0
    THEN [kind |-> "Ok", val |-> 256 * resp[2] + resp[3]]
    ELSE [kind |-> "Checksum",
          computed |-> (256 - (SumOfSeven(resp) % 256)) % 256,
          received |-> resp[8]]

C14_ReadState ==
    /\ pc \in {"bit_high", "bit_low", "checksum"} =>
          \A j \in 0..39 :
              BitAt(buf, j) = IF j < bit THEN BitAt(frame, j) ELSE 0
    /\ pc = "checksum" => buf = frame
    /\ (pc = "done" /\ result.kind \in {"Ok", "CheckSum"}) =>
          /\ wake_ops = ExpectedWake
          /\ buf = frame
          /\ result = C14_Decode(frame)
    /\ (pc = "done" /\ result.kind = "PinError") => result.err = pin
    /\ (pc = "done" /\ result.kind \in {"NotFoundOnGPio", "ReadTimeout"}) =>
          /\ pin \in Levels
          /\ wake_ops = ExpectedWake

C14_ReadStart ==
    (pc \in {"idle", "done"} /\ pc' \notin {"idle", "done"}) =>
        /\ pc' = "hs_high"
        /\ bit' = 0
        /\ buf' = ZeroBuf
        /\ elapsed_time' = 0
        /\ slept' = 0
        /\ wait_ret' = Polling
        /\ result' = None
        /\ wake_ops' = ExpectedWake

C14_ReadFailure ==
    (pc \in WaitPcs /\ wait_ret.kind = "Err") =>
        result' = IF pin \in HalErrors THEN [kind |-> "PinError", err |-> pin]
                  ELSE IF pc \in {"hs_high", "hs_low"}
                  THEN [kind |-> "NotFoundOnGPio"]
                  ELSE [kind |-> "ReadTimeout"]

C14_CallState ==
    mhz_pc = "done" =>
        /\ mhz_result = C14_Answer(mhz_call, uart_ops, response)
        /\ \A i \in 0..8 : i >= rx_len => response[i] = 0

C14_ResultFromThisCall ==
    /\ []C14_ReadState
    /\ []C14_CallState
    /\ [][C14_ReadStart]_vars
    /\ [][C14_ReadFailure]_vars

C14_Witness ==
    /\ result.kind = "ReadTimeout"
    /\ pin = "High"
    /\ mhz_pc = "done"
    /\ mhz_call.fn = "read_co2"
    /\ mhz_result = [kind |-> "Ok", val |-> 600]

\* C16: a pin operation that fails with e during read (set_low, set_high,
\* is_high or is_low) makes read return PinError(e), never NotFoundOnGPio,
\* ReadTimeout or CheckSum, and no pin operation follows it in that read; in
\* read_co2 a failed write returns HalError(e) with no read attempted, and a
\* failed read returns HalError(e), never Checksum.
C16_PinFaultState ==
    pin \in HalErrors =>
        \/ /\ pc \in WaitPcs
           /\ wait_ret = [kind |-> "Err", err |-> [kind |-> "PinError", err |-> pin]]
        \/ /\ pc \in {"done", "idle"}
           /\ result = [kind |-> "PinError", err |-> pin]
           /\ pc = "done" =>
                 wake_ops \in {SubSeq(ExpectedWake, 1, 1), SubSeq(ExpectedWake, 1, 3),
                               ExpectedWake}

\* after the fault the only step of the read is its return
C16_PinFaultStep ==
    (pin \in HalErrors /\ pc \in WaitPcs) =>
        /\ pc' = "done"
        /\ pin' = pin
        /\ wake_ops' = wake_ops
        /\ result' = [kind |-> "PinError", err |-> pin]

C16_UartFaultState ==
    (mhz_pc = "done" /\ mhz_call.fn = "read_co2") =>
        /\ uart_ops[1].op = "write"
        /\ uart_ops[1].out # "Ok" =>
              /\ Len(uart_ops) = 1
              /\ mhz_result = [kind |-> "HalError", err |-> uart_ops[1].out]
              /\ response = ZeroResp
        /\ uart_ops[1].out = "Ok" =>
              /\ Len(uart_ops) = 2
              /\ uart_ops[2].op = "read"
              /\ uart_ops[2].out # "Ok" =>
                    mhz_result = [kind |-> "HalError", err |-> uart_ops[2].out]

C16_FaultsArePropagated ==
    /\ []C16_PinFaultState
    /\ []C16_UartFaultState
    /\ [][C16_PinFaultStep]_vars

C16_Witness ==
    /\ pc = "idle"
    /\ pin = "EBusy"
    /\ result = [kind |-> "PinError", err |-> "EBusy"]
    /\ mhz_pc = "done"
    /\ uart_ops = << [op |-> "write", out |-> "Ok"], [op |-> "read", out |-> "EFault"] >>
    /\ mhz_result = [kind |-> "HalError", err |-> "EFault"]

\* the frame that carries a reading: humidity as a big-endian 16-bit count of
\* tenths, temperature as a sign flag and a 15-bit magnitude, then the low 8
\* bits of the sum of the four bytes
Encode(humidity, temperature) ==
    LET b0 == humidity \div 256
        b1 == humidity % 256
        b2 == (IF temperature.neg THEN 128 ELSE 0) + (temperature.tenths \div 256)
        b3 == temperature.tenths % 256
    IN  Frame(<<b0, b1, b2, b3, (b0 + b1 + b2 + b3) % 256>>)

\* C17: every 5-byte frame whose byte 4 is the checksum of bytes 0..3 is
\* decoded to a reading whose encoding is the same five bytes; this holds for
\* the temperature bytes 0x80, 0x00 (sign set, magnitude zero) too.
C17_RoundTrip ==
    (pc = "done" /\ SumOfFour(buf) = buf[4]) =>
        /\ result.kind = "Ok"
        /\ result.humidity \in 0..65535
        /\ result.temperature.tenths \in 0..32767
        /\ Encode(result.humidity, result.temperature) = buf

C17_Witness ==
    /\ pc = "done"
    /\ buf = Frame(<<0, 0, 128, 0, 128>>)
    /\ result = [kind |-> "Ok", humidity |-> 0,
                 temperature |-> [neg |-> TRUE, tenths |-> 0]]

\* the polls a read can still make: those left in the wait it is in, plus all
\* polls of the waits that may follow (86 per handshake wait, 56 + 71 per bit)
PollsAfter ==
    CASE pc = "hs_high"  -> 86 + 40 * (56 + 71)
      [] pc = "hs_low"   -> 40 * (56 + 71)
      [] pc = "bit_high" -> 71 + (39 - bit) * (56 + 71)
      [] pc = "bit_low"  -> (39 - bit) * (56 + 71)
      [] OTHER           -> 0

PollsLeft ==
    IF pc \in WaitPcs
    THEN (IF wait_ret = Polling
          THEN (CASE pc \in {"hs_high", "hs_low"} -> 86
                  [] pc = "bit_high"              -> 56
                  [] pc = "bit_low"               -> 71) - elapsed_time
          ELSE 0) + PollsAfter
    ELSE 0

\* the steps other than polls a read can still make: one per wait not yet
\* left, and the checksum
StepsAfterPolls ==
    CASE pc = "hs_high"  -> 83
      [] pc = "hs_low"   -> 82
      [] pc = "bit_high" -> 81 - 2 * bit
      [] pc = "bit_low"  -> 80 - 2 * bit
      [] pc = "checksum" -> 1
      [] OTHER           -> 0

\* C18: a read ends whatever the line does: after the wake sequence it
\* samples the line at most 2*86 + 40*(56+71) = 5252 times, every wait ends
\* when the level is seen or its timeout runs out, and the read then returns
\* a result.
C18_Budget ==
    /\ PollsLeft >= 0
    /\ PollsLeft <= 5252
    /\ StepsAfterPolls >= 0
    /\ (pc \in WaitPcs /\ wait_ret = Polling) => PollsLeft > PollsAfter
    /\ pc \notin {"idle", "done"} => ENABLED NextDht
    /\ pc = "done" => result.kind \in {"Ok", "CheckSum", "NotFoundOnGPio",
                                       "ReadTimeout", "PinError"}

\* entering the first wait a read has 5252 polls to spend
C18_Start ==
    (pc \in {"idle", "done"} /\ pc' \notin {"idle", "done"})
        => PollsLeft' = 2 * 86 + 40 * (56 + 71)

\* every poll spends one, and every step of a read brings its end nearer
C18_Step ==
    pc \notin {"idle", "done"} =>
        /\ (pc \in WaitPcs /\ wait_ret = Polling) => PollsLeft' <= PollsLeft - 1
        /\ PollsLeft' <= PollsLeft
        /\ PollsLeft' + StepsAfterPolls' < PollsLeft + StepsAfterPolls

C18_ReadTerminates ==
    /\ []C18_Budget
    /\ [][C18_Start]_vars
    /\ [][C18_Step]_vars

C18_Witness ==
    /\ pc = "done"
    /\ buf = Frame(<<255, 255, 255, 255, 252>>)
    /\ result.kind = "Ok"
    /\ pin = "Low"

\* C19: against a sensor that keeps the documented timing (response low and
\* high of 80 us each, then 40 bits of 50 us low and 26-28 us or 70 us high),
\* the line sampled once a microsecond, read ends with neither NotFoundOnGPio
\* nor ReadTimeout and the 40 bits decoded are the bits sent, whether the
\* response begins before or after the host's 25 us delay has passed.
C19_AsStated ==
    (pc = "done" /\ sensor.mode = "timed" /\ wake_ops = ExpectedWake) =>
        /\ result.kind \notin {"NotFoundOnGPio", "ReadTimeout"}
        /\ bit = NumBits
        /\ buf = frame

\* C20: in the acquisition loop every CO2 value logged comes from a 9-byte
\* response whose checksum was validated (bytes 1..8 sum to 0 mod 256), and
\* whether the CO2 value of an iteration is logged does not depend on how
\* the humidity/temperature read of that iteration ended.
C20_ValidResponse ==
    /\ rx_len = 9
    /\ (SumOfSeven(response) + response[8]) % 256 = 0

C20_AsStated ==
    (main_pc = "top" /\ log # None) =>
        /\ log.level = "info" =>
              (C20_ValidResponse /\ log.co2 = 256 * response[2] + response[3])
        /\ C20_ValidResponse => log.level = "info"

====
